---- MODULE Spec2Model ----
(***************************************************************************)
(* Model of the BMA423 accelerometer driver (bma423-async/src/lib.rs):     *)
(* the feature-configuration transfer through the 8-byte FEATURES_IN port, *)
(* the advanced-power-save bracket around it, the pointer codec and the    *)
(* initialization sequence.  One step of the model is one suspension point *)
(* of the driver: a bus transaction or a delay.                            *)
(***************************************************************************)
EXTENDS Integers, Sequences, FiniteSets, TLC

\* ---------------------------------------------------------------- bounds
MaxLen == 16         \* buffer lengths 0..MaxLen are handed to the region operations
MaxOffset == 2       \* start offsets 0..MaxOffset (and 100) are handed to them
MaxHalfAddr == 255   \* the codec is exercised on the addresses 2*h, h in 0..MaxHalfAddr
MaxForeign == 1      \* bus writes other code may slip in during one call
TailChunks == 2      \* chunks of the config file left to write where ConfigTailSpec starts
MaxDec == 99         \* the values 0..MaxDec are converted to BCD and back

\* ------------------------------------------------------ program constants
CHIP_ID == 19
CONFIG_FILE_SIZE == 6144
FEATURE_SIZE == 64
FEATURE_RW_SIZE == 8
ASIC_INITIALIZATION_TIMEOUT_MS == 200
SENSOR_TIME_SYNCHRONIZATION_US == 450
START == CONFIG_FILE_SIZE - FEATURE_RW_SIZE
STEP_COUNTER_SETTINGS_26 == 54
ADVANCED_POWER_SAVE == 1
FIFO_SELF_WAKEUP == 2

\* register addresses (register.rs)
REG_CHIP_ID == 0
INTERNAL_STATUS == 42
INT1_IO_CTRL == 83
INIT_CTRL == 89
RESERVED_REG_5B == 91
RESERVED_REG_5C == 92
FEATURES_IN == 94
PWR_CONF == 124
PWR_CTRL == 125

Regs == {REG_CHIP_ID, INTERNAL_STATUS, INT1_IO_CTRL, INIT_CTRL,
         RESERVED_REG_5B, RESERVED_REG_5C, PWR_CONF, PWR_CTRL}

\* ------------------------------------------------------------ environment
MemSize == START + FEATURE_SIZE + FEATURE_RW_SIZE
Offsets == (0..MaxOffset) \cup {100}
Lens == 0..MaxLen
StatusValues == {0, 1, 2, 33}
ChipIds == {CHIP_ID, 18}

\* contents of the device's configuration memory at power-on
InitMem(a) == (a * 3 + 1) % 256
\* contents of the config file blob (bma423_config_file.bin), 0-indexed
ConfigFileByte(i) == (i * 11 + 5) % 256
\* the data a caller hands to a region write: n bytes
CallerData(n) == [i \in 1..n |-> (200 + 7 * i) % 256]

VARIABLES
    regs,             \* device registers
    mem,              \* device configuration memory behind the FEATURES_IN port (bytes written)
    op,               \* the driver function the caller invoked
    pc,               \* the suspension point the driver is at
    result,           \* what the call returned: "none" while running
    burst,            \* "read" / "write": which burst function is running
    start_addr,       \* burst_*_features: start_addr
    buf,              \* the buffer of the region operation
    chunk,            \* burst_write_features: the 9-byte scratch chunk
    chunk_i,          \* the loop counter of the chunk loop
    set_addr,         \* set_feature_config_data_addr: addr
    in_incr,          \* set_feature_config_data_addr was called by incr_...
    asic_lsb,         \* feature_config_data_addr: asic_lsb read back
    prev_power_mode,  \* set_features / read_features: prev_power_mode
    total_delay_ms,   \* load_config_file: total_delay_ms
    chip_id,          \* check_chip_id: chip_id, the payload of InvalidChipId
    codec,            \* the pointer codec applied to an address
    calc,             \* the conversion functions applied to a value
    regs0,            \* history: the registers when the call started
    mem0,             \* history: the configuration memory when the call started
    foreign,          \* history: the bus writes other code issued during the call
    written,          \* history: the data of the region write before a read-back
    trace             \* history: the bus transactions, delays and mutator calls so far

vars == <<regs, mem, op, pc, result, burst, start_addr, buf, chunk, chunk_i,
          set_addr, in_incr, asic_lsb, prev_power_mode, total_delay_ms, codec,
          calc, chip_id, regs0, mem0, foreign, written, trace>>

\* ------------------------------------------------------------ pure helpers
\* PowerMode::from_bits_truncate: only the two defined flags survive
from_bits_truncate_drops_fifo(bits) == bits % 2
from_bits_truncate(bits) == bits % 4
\* PowerMode::contains(ADVANCED_POWER_SAVE)
contains_aps_any_flag(mode) == mode # 0
contains_aps(mode) == mode % 2 = 1
\* PowerMode::difference(ADVANCED_POWER_SAVE)
difference_aps_keeps_bit(mode) == mode
difference_aps_clears_all(mode) == 0
difference_aps(mode) == mode - (mode % 2)

split_lsb_unhalved(a) == a % 16
split_lsb(a) == (a \div 2) % 16
split_msb_4bit(a) == ((a \div 2) \div 16) % 16
split_msb(a) == ((a \div 2) \div 16) % 256
split_narrow_lsb(a) == <<(a \div 2) % 8, split_msb(a)>>
split_msb_nibble(a) == <<split_lsb(a), split_msb(a) % 16>>
split_feature_conf_data_address(a) == <<split_lsb(a), split_msb(a)>>
join_without_doubling(lsb, msb) == (msb * 16) + (lsb % 16)
join_feature_conf_data_address(lsb, msb) == ((msb * 16) + (lsb % 16)) * 2
\* incr_feature_config_data_addr: addr + FEATURE_RW_SIZE
incr_addr_by_half(a) == a + (FEATURE_RW_SIZE \div 2)
incr_addr(a) == a + FEATURE_RW_SIZE

\* features[STEP_COUNTER_SETTINGS_26 + 1] |= 0b100 (sequences are 1-indexed)
or_0b100_assigns(b) == 4
or_0b100(b) == IF (b \div 4) % 2 = 1 THEN b ELSE b + 4
reset_step_counter_mutator(features) ==
    [features EXCEPT ![STEP_COUNTER_SETTINGS_26 + 2] = or_0b100(@)]

\* temp as i8: the byte reinterpreted as a two's complement value
as_i8_zero_extended(t) == t
as_i8(t) == IF t >= 128 THEN t - 256 ELSE t
\* sensor_temperature_as_celsius: None is <<>>, Some(v) is <<v>>
sensor_temperature_as_celsius(temp) ==
    IF temp = 128 THEN <<>> ELSE <<as_i8(temp) + 23>>

\* pcf8563-async: u8 arithmetic overflows above 255 (a panic in a debug build,
\* a wrapped value in a release build)
u8_overflows(x) == x > 255
wrapping_u8(x) == x % 256
\* dec_to_bcd: (n / 10 * 16) + (n % 10)
dec_to_bcd(n) == wrapping_u8(wrapping_u8((n \div 10) * 16) + (n % 10))
dec_to_bcd_overflows(n) ==
    \/ u8_overflows((n \div 10) * 16)
    \/ u8_overflows(wrapping_u8((n \div 10) * 16) + (n % 10))
\* bcd_to_dec: (n / 16 * 10) + (n % 16)
bcd_to_dec_as_binary(n) == wrapping_u8(wrapping_u8((n \div 16) * 16) + (n % 16))
bcd_to_dec(n) == wrapping_u8(wrapping_u8((n \div 16) * 10) + (n % 16))
bcd_to_dec_overflows(n) ==
    \/ u8_overflows((n \div 16) * 10)
    \/ u8_overflows(wrapping_u8((n \div 16) * 10) + (n % 16))

\* ------------------------------------------------------------ the device
\* the address the device derives from its two pointer registers
DevPtr == ((regs[RESERVED_REG_5C] * 16) + (regs[RESERVED_REG_5B] % 16)) * 2
\* mem holds the bytes written since power-on (the step counter settings byte
\* may have been written before the call), the other bytes still hold InitMem
MemAddrs == 0..(MemSize - 1)
MemAt(a) == IF a \in DOMAIN mem THEN mem[a]
            ELSE IF a \in MemAddrs THEN InitMem(a) ELSE 0
\* a read of n bytes from the port returns the memory at the pointer
PortRead(n) == [i \in 1..n |-> MemAt(DevPtr + i - 1)]
\* a write of bytes to the port stores them at the pointer
PortWrite(bytes) ==
    LET target == {a \in DevPtr..(DevPtr + Len(bytes) - 1) : a \in MemAddrs} IN
    [a \in (DOMAIN mem) \cup target |->
        IF a \in target THEN bytes[a - DevPtr + 1] ELSE mem[a]]

Entry(kind, reg, data, ok) ==
    [kind |-> kind, reg |-> reg, data |-> data, ok |-> ok,
     aps |-> regs[PWR_CONF] % 2, ptr |-> DevPtr]
Log(kind, reg, data, ok) == trace' = Append(trace, Entry(kind, reg, data, ok))

\* the buffer handed to the running burst function: load_config_file passes
\* the static CONFIG_FILE, everything else a buffer of the caller
BufLen == IF op = "initialize" THEN CONFIG_FILE_SIZE ELSE Len(buf)
BufSlice(from, n) ==
    IF op = "initialize" THEN [i \in 1..n |-> ConfigFileByte(from + i - 1)]
    ELSE SubSeq(buf, from + 1, from + n)

\* ------------------------------------------------------------ control flow
Return_as_ok(r) == pc' = "done" /\ result' = "Ok"
Return(r) == pc' = "done" /\ result' = r
Goto(p) == IF p = "done" THEN Return("Ok") ELSE pc' = p /\ result' = result

\* set_features / read_features: what follows the transfer
AfterTransfer == IF contains_aps(prev_power_mode) THEN "restore_write" ELSE "done"
\* what follows a burst function that returned Ok
AfterBurst_skips_write_back ==
    IF op = "initialize" THEN "init_ctrl_1"
    ELSE IF op \in {"set_features", "read_features"} THEN AfterTransfer
    ELSE "done"
AfterBurst ==
    IF op = "initialize" THEN "init_ctrl_1"
    ELSE IF op = "set_features" /\ burst = "read" THEN "mutate"
    ELSE IF op \in {"set_features", "read_features"} THEN AfterTransfer
    ELSE "done"
\* the chunk loop and the overflow test behind it
LoopPc_always_overflow(i) ==
    IF i < BufLen \div FEATURE_RW_SIZE THEN "chunk" ELSE "overflow"
LoopPc(i) ==
    IF i < BufLen \div FEATURE_RW_SIZE THEN "chunk"
    ELSE IF BufLen % FEATURE_RW_SIZE > 0 THEN "overflow"
    ELSE AfterBurst

Locals == <<burst, start_addr, buf, chunk, chunk_i, set_addr, in_incr, asic_lsb,
            prev_power_mode, total_delay_ms, chip_id>>

\* ------------------------------------------------------------------ Init
\* the device has been initialized before: INIT_CTRL still holds the 1 that
\* load_config_file wrote last
InitRegs(chip, pwr, ptr) ==
    [r \in Regs |->
        IF r = REG_CHIP_ID THEN chip
        ELSE IF r = PWR_CONF THEN pwr
        ELSE IF r = RESERVED_REG_5B THEN ptr[1]
        ELSE IF r = RESERVED_REG_5C THEN ptr[2]
        ELSE IF r = PWR_CTRL THEN 4
        ELSE IF r = INIT_CTRL THEN 1
        ELSE 0]

InitCommon ==
    /\ \E chip \in ChipIds, pwr \in 0..3, ptr \in {<<0, 0>>, <<5, 1>>} :
          regs = InitRegs(chip, pwr, ptr)
    /\ mem \in {<<>>, (START + STEP_COUNTER_SETTINGS_26 + 1) :> 11}
    /\ op = "none"
    /\ pc = "idle"
    /\ result = "none"
    /\ burst = "none"
    /\ start_addr = 0
    /\ buf = <<>>
    /\ chunk = <<>>
    /\ chunk_i = 0
    /\ set_addr = 0
    /\ in_incr = FALSE
    /\ asic_lsb = 0
    /\ prev_power_mode = 0
    /\ total_delay_ms = 0
    /\ chip_id = 0
    /\ regs0 = regs
    /\ mem0 = mem
    /\ foreign = 0
    /\ written = <<>>
    /\ trace = <<>>

Init ==
    /\ InitCommon
    /\ codec = [pc |-> "off", addr |-> 0, lsb |-> 0, msb |-> 0, joined |-> 0]
    /\ calc = [pc |-> "off", in |-> 0, mid |-> 0, out |-> <<>>, overflow |-> FALSE]

\* ------------------------------------------------------- the caller's calls
\* the caller invokes burst_write_features(start, data)
call_burst_write_features ==
    /\ pc = "idle"
    /\ \E start \in Offsets, n \in Lens :
         /\ start_addr' = start
         /\ buf' = CallerData(n)
    /\ op' = "burst_write_features"
    /\ burst' = "write"
    /\ pc' = "burst_entry"
    /\ regs0' = regs
    /\ mem0' = mem
    /\ foreign' = foreign
    /\ UNCHANGED <<regs, mem, result, chunk, chunk_i, set_addr, in_incr, asic_lsb,
                   prev_power_mode, total_delay_ms, codec, calc, chip_id, written, trace>>

\* the caller invokes burst_read_features(start, out) with a zeroed buffer
call_burst_read_features ==
    /\ pc = "idle"
    /\ \E start \in Offsets, n \in Lens :
         /\ start_addr' = start
         /\ buf' = [i \in 1..n |-> 0]
    /\ op' = "burst_read_features"
    /\ burst' = "read"
    /\ pc' = "burst_entry"
    /\ regs0' = regs
    /\ mem0' = mem
    /\ foreign' = foreign
    /\ UNCHANGED <<regs, mem, result, chunk, chunk_i, set_addr, in_incr, asic_lsb,
                   prev_power_mode, total_delay_ms, codec, calc, chip_id, written, trace>>

\* after a region write returned Ok the caller reads the same range back
call_read_back ==
    /\ pc = "done"
    /\ op = "burst_write_features"
    /\ result = "Ok"
    /\ written' = buf
    /\ buf' = [i \in 1..Len(buf) |-> 0]
    /\ op' = "read_back"
    /\ burst' = "read"
    /\ pc' = "burst_entry"
    /\ result' = "none"
    /\ UNCHANGED <<regs, mem, start_addr, chunk, chunk_i, set_addr, in_incr, asic_lsb,
                   prev_power_mode, total_delay_ms, codec, calc, chip_id, regs0, mem0, foreign, trace>>

\* the caller invokes read_features(buf) with a zeroed buffer
call_read_features ==
    /\ pc = "idle"
    /\ \E n \in Lens : buf' = [i \in 1..n |-> 0]
    /\ op' = "read_features"
    /\ pc' = "disable_read"
    /\ regs0' = regs
    /\ mem0' = mem
    /\ foreign' = foreign
    /\ UNCHANGED <<regs, mem, result, burst, start_addr, chunk, chunk_i, set_addr,
                   in_incr, asic_lsb, prev_power_mode, total_delay_ms, codec, calc, chip_id,
                   written, trace>>

\* the caller invokes reset_step_counter(), which is set_features(mutator)
call_reset_step_counter ==
    /\ pc = "idle"
    /\ op' = "set_features"
    /\ pc' = "disable_read"
    /\ regs0' = regs
    /\ mem0' = mem
    /\ foreign' = foreign
    /\ UNCHANGED <<regs, mem, result, burst, start_addr, buf, chunk, chunk_i, set_addr,
                   in_incr, asic_lsb, prev_power_mode, total_delay_ms, codec, calc, chip_id,
                   written, trace>>

\* the caller invokes initialize()
call_initialize ==
    /\ pc = "idle"
    /\ op' = "initialize"
    /\ pc' = "check_chip_id"
    /\ regs0' = regs
    /\ mem0' = mem
    /\ foreign' = foreign
    /\ UNCHANGED <<regs, mem, result, burst, start_addr, buf, chunk, chunk_i, set_addr,
                   in_incr, asic_lsb, prev_power_mode, total_delay_ms, codec, calc, chip_id,
                   written, trace>>

\* ----------------------------------------------- the power-save bracket
\* disable_advanced_power_save: let power_mode = self.power_mode().await?
disable_advanced_power_save_read ==
    /\ pc = "disable_read"
    /\ \E ok \in BOOLEAN :
         /\ Log("read", PWR_CONF, <<regs[PWR_CONF]>>, ok)
         /\ IF ok
            THEN /\ prev_power_mode' = from_bits_truncate(regs[PWR_CONF])
                 /\ IF contains_aps(from_bits_truncate(regs[PWR_CONF]))
                    THEN Goto("disable_write")
                    ELSE Goto("transfer")
            ELSE /\ Return("Bus")
                 /\ UNCHANGED prev_power_mode
    /\ UNCHANGED <<regs, mem, op, burst, start_addr, buf, chunk, chunk_i, set_addr,
                   in_incr, asic_lsb, total_delay_ms, codec, calc, chip_id, regs0, mem0, foreign, written>>

\* disable_advanced_power_save: set_power_mode(power_mode.difference(APS)).await?
disable_advanced_power_save_write ==
    /\ pc = "disable_write"
    /\ \E ok \in BOOLEAN :
         /\ Log("write", PWR_CONF, <<difference_aps(prev_power_mode)>>, ok)
         /\ IF ok
            THEN /\ regs' = [regs EXCEPT ![PWR_CONF] = difference_aps(prev_power_mode)]
                 /\ Goto("disable_delay")
            ELSE /\ Return("Bus")
                 /\ UNCHANGED regs
    /\ UNCHANGED <<mem, op, burst, start_addr, buf, chunk, chunk_i, set_addr,
                   in_incr, asic_lsb, prev_power_mode, total_delay_ms, codec, calc, chip_id, regs0, mem0, foreign,
                   written>>

\* disable_advanced_power_save: delay_us(SENSOR_TIME_SYNCHRONIZATION_US)
disable_advanced_power_save_no_delay ==
    /\ pc = "disable_delay"
    /\ Goto("transfer")
    /\ UNCHANGED <<regs, mem, op, burst, start_addr, buf, chunk, chunk_i, set_addr,
                   in_incr, asic_lsb, prev_power_mode, total_delay_ms, codec, calc, chip_id, regs0,
                   mem0, foreign, written, trace>>
disable_advanced_power_save_delay ==
    /\ pc = "disable_delay"
    /\ Log("delay", 0, <<SENSOR_TIME_SYNCHRONIZATION_US>>, TRUE)
    /\ Goto("transfer")
    /\ UNCHANGED <<regs, mem, op, burst, start_addr, buf, chunk, chunk_i, set_addr,
                   in_incr, asic_lsb, prev_power_mode, total_delay_ms, codec, calc, chip_id, regs0, mem0, foreign,
                   written>>

\* set_features: let mut buf = [0; FEATURE_SIZE]; burst_read_features(START, &mut buf)
\* read_features: burst_read_features(START, buf)
begin_transfer ==
    /\ pc = "transfer"
    /\ buf' = IF op = "set_features" THEN [i \in 1..FEATURE_SIZE |-> 0] ELSE buf
    /\ start_addr' = START
    /\ burst' = "read"
    /\ Goto("burst_entry")
    /\ UNCHANGED <<regs, mem, op, chunk, chunk_i, set_addr, in_incr, asic_lsb,
                   prev_power_mode, total_delay_ms, codec, calc, chip_id, regs0, mem0, foreign, written, trace>>

\* set_features: f(&mut buf); burst_write_features(START, &buf)
mutate ==
    /\ pc = "mutate"
    /\ buf' = reset_step_counter_mutator(buf)
    /\ Log("mutator", 0, <<>>, TRUE)
    /\ burst' = "write"
    /\ Goto("burst_entry")
    /\ UNCHANGED <<regs, mem, op, start_addr, chunk, chunk_i, set_addr, in_incr,
                   asic_lsb, prev_power_mode, total_delay_ms, codec, calc, chip_id, regs0, mem0,
                   foreign, written>>

\* restore_advanced_power_save: set_power_mode(prev_power_mode).await?
restore_advanced_power_save_write_ignores_error ==
    /\ pc = "restore_write"
    /\ \E ok \in BOOLEAN :
         /\ Log("write", PWR_CONF, <<prev_power_mode>>, ok)
         /\ regs' = IF ok THEN [regs EXCEPT ![PWR_CONF] = prev_power_mode] ELSE regs
         /\ Goto("restore_delay")
    /\ UNCHANGED <<mem, op, burst, start_addr, buf, chunk, chunk_i, set_addr,
                   in_incr, asic_lsb, prev_power_mode, total_delay_ms, codec, calc, chip_id, regs0,
                   mem0, foreign, written>>
restore_advanced_power_save_write ==
    /\ pc = "restore_write"
    /\ \E ok \in BOOLEAN :
         /\ Log("write", PWR_CONF, <<prev_power_mode>>, ok)
         /\ IF ok
            THEN /\ regs' = [regs EXCEPT ![PWR_CONF] = prev_power_mode]
                 /\ Goto("restore_delay")
            ELSE /\ Return("Bus")
                 /\ UNCHANGED regs
    /\ UNCHANGED <<mem, op, burst, start_addr, buf, chunk, chunk_i, set_addr,
                   in_incr, asic_lsb, prev_power_mode, total_delay_ms, codec, calc, chip_id, regs0, mem0, foreign,
                   written>>

\* restore_advanced_power_save: delay_us(SENSOR_TIME_SYNCHRONIZATION_US); Ok(())
restore_advanced_power_save_delay ==
    /\ pc = "restore_delay"
    /\ Log("delay", 0, <<SENSOR_TIME_SYNCHRONIZATION_US>>, TRUE)
    /\ Return("Ok")
    /\ UNCHANGED <<regs, mem, op, burst, start_addr, buf, chunk, chunk_i, set_addr,
                   in_incr, asic_lsb, prev_power_mode, total_delay_ms, codec, calc, chip_id, regs0, mem0, foreign,
                   written>>

\* ------------------------------------------------------ the burst functions
\* burst_*_features: assert!(buf.len() % 2 == 0), then the call of
\* set_feature_config_data_addr(start_addr); burst_write_features also
\* prepares its scratch chunk
burst_entry_keeps_pointer ==
    /\ pc = "burst_entry"
    /\ IF BufLen % 2 # 0
       THEN /\ Return("Panic")
            /\ UNCHANGED <<set_addr, in_incr, chunk_i, chunk>>
       ELSE /\ set_addr' = start_addr
            /\ in_incr' = FALSE
            /\ chunk_i' = 0
            /\ chunk' = IF burst = "write"
                        THEN <<FEATURES_IN>> \o [i \in 1..FEATURE_RW_SIZE |-> 0]
                        ELSE chunk
            /\ Goto(LoopPc(0))
    /\ UNCHANGED <<regs, mem, op, burst, start_addr, buf, asic_lsb, prev_power_mode,
                   total_delay_ms, codec, calc, chip_id, regs0, mem0, foreign, written, trace>>
burst_entry ==
    /\ pc = "burst_entry"
    /\ IF BufLen % 2 # 0
       THEN /\ Return("Panic")
            /\ UNCHANGED <<set_addr, in_incr, chunk_i, chunk>>
       ELSE /\ set_addr' = start_addr
            /\ in_incr' = FALSE
            /\ chunk_i' = 0
            /\ chunk' = IF burst = "write"
                        THEN <<FEATURES_IN>> \o [i \in 1..FEATURE_RW_SIZE |-> 0]
                        ELSE chunk
            /\ Goto("set_lsb")
    /\ UNCHANGED <<regs, mem, op, burst, start_addr, buf, asic_lsb, prev_power_mode,
                   total_delay_ms, codec, calc, chip_id, regs0, mem0, foreign, written, trace>>

\* set_feature_config_data_addr: write(&[RESERVED_REG_5B, asic_lsb]).await?
set_feature_config_data_addr_lsb ==
    /\ pc = "set_lsb"
    /\ LET lsb == split_feature_conf_data_address(set_addr)[1] IN
       \E ok \in BOOLEAN :
         /\ Log("write", RESERVED_REG_5B, <<lsb>>, ok)
         /\ IF ok
            THEN /\ regs' = [regs EXCEPT ![RESERVED_REG_5B] = lsb]
                 /\ Goto("set_msb")
            ELSE /\ Return("Bus")
                 /\ UNCHANGED regs
    /\ UNCHANGED <<mem, op, burst, start_addr, buf, chunk, chunk_i, set_addr,
                   in_incr, asic_lsb, prev_power_mode, total_delay_ms, codec, calc, chip_id, regs0, mem0, foreign,
                   written>>

\* set_feature_config_data_addr: write(&[RESERVED_REG_5C, asic_msb]).await?; Ok(())
\* and, back in the burst function, the next iteration of the chunk loop
set_feature_config_data_addr_msb ==
    /\ pc = "set_msb"
    /\ LET msb == split_feature_conf_data_address(set_addr)[2]
           next_i == IF in_incr THEN chunk_i + 1 ELSE chunk_i IN
       \E ok \in BOOLEAN :
         /\ Log("write", RESERVED_REG_5C, <<msb>>, ok)
         /\ IF ok
            THEN /\ regs' = [regs EXCEPT ![RESERVED_REG_5C] = msb]
                 /\ chunk_i' = next_i
                 /\ Goto(LoopPc(next_i))
            ELSE /\ Return("Bus")
                 /\ UNCHANGED <<regs, chunk_i>>
    /\ UNCHANGED <<mem, op, burst, start_addr, buf, chunk, set_addr,
                   in_incr, asic_lsb, prev_power_mode, total_delay_ms, codec, calc, chip_id, regs0, mem0, foreign,
                   written>>

\* burst_write_features, loop body: chunk[1..].copy_from_slice(&buf[i..i + 8]);
\* self.write(&chunk).await?
burst_write_features_chunk ==
    /\ pc = "chunk"
    /\ burst = "write"
    /\ LET i == chunk_i * FEATURE_RW_SIZE
           data == BufSlice(i, FEATURE_RW_SIZE) IN
       /\ chunk' = <<FEATURES_IN>> \o data
       /\ \E ok \in BOOLEAN :
            /\ Log("write", FEATURES_IN, data, ok)
            /\ IF ok
               THEN /\ mem' = PortWrite(data)
                    /\ Goto("incr_read_lsb")
               ELSE /\ Return("Bus")
                    /\ UNCHANGED mem
    /\ UNCHANGED <<regs, op, burst, start_addr, buf, chunk_i, set_addr,
                   in_incr, asic_lsb, prev_power_mode, total_delay_ms, codec, calc, chip_id, regs0, mem0, foreign,
                   written>>

\* burst_read_features, loop body:
\* read_registers(FEATURES_IN, &mut buf[i..i + 8]).await?
burst_read_features_chunk ==
    /\ pc = "chunk"
    /\ burst = "read"
    /\ LET i == chunk_i * FEATURE_RW_SIZE
           data == PortRead(FEATURE_RW_SIZE) IN
       \E ok \in BOOLEAN :
         /\ Log("read", FEATURES_IN, data, ok)
         /\ IF ok
            THEN /\ buf' = [k \in 1..Len(buf) |->
                              IF k > i /\ k <= i + FEATURE_RW_SIZE THEN data[k - i]
                              ELSE buf[k]]
                 /\ Goto("incr_read_lsb")
            ELSE /\ Return("Bus")
                 /\ UNCHANGED buf
    /\ UNCHANGED <<regs, mem, op, burst, start_addr, chunk, chunk_i, set_addr,
                   in_incr, asic_lsb, prev_power_mode, total_delay_ms, codec, calc, chip_id, regs0, mem0, foreign,
                   written>>

\* feature_config_data_addr: let asic_lsb = read_u8(RESERVED_REG_5B).await?
feature_config_data_addr_lsb ==
    /\ pc = "incr_read_lsb"
    /\ \E ok \in BOOLEAN :
         /\ Log("read", RESERVED_REG_5B, <<regs[RESERVED_REG_5B]>>, ok)
         /\ IF ok
            THEN /\ asic_lsb' = regs[RESERVED_REG_5B]
                 /\ Goto("incr_read_msb")
            ELSE /\ Return("Bus")
                 /\ UNCHANGED asic_lsb
    /\ UNCHANGED <<regs, mem, op, burst, start_addr, buf, chunk, chunk_i, set_addr,
                   in_incr, prev_power_mode, total_delay_ms, codec, calc, chip_id, regs0, mem0, foreign, written>>

\* feature_config_data_addr: let asic_msb = read_u8(RESERVED_REG_5C).await?; the
\* join; and incr_feature_config_data_addr's call of
\* set_feature_config_data_addr(addr + FEATURE_RW_SIZE)
feature_config_data_addr_msb ==
    /\ pc = "incr_read_msb"
    /\ \E ok \in BOOLEAN :
         /\ Log("read", RESERVED_REG_5C, <<regs[RESERVED_REG_5C]>>, ok)
         /\ IF ok
            THEN /\ set_addr' = incr_addr(join_feature_conf_data_address(asic_lsb,
                                    regs[RESERVED_REG_5C]))
                 /\ in_incr' = TRUE
                 /\ Goto("set_lsb")
            ELSE /\ Return("Bus")
                 /\ UNCHANGED <<set_addr, in_incr>>
    /\ UNCHANGED <<regs, mem, op, burst, start_addr, buf, chunk, chunk_i,
                   asic_lsb, prev_power_mode, total_delay_ms, codec, calc, chip_id, regs0, mem0, foreign, written>>

\* burst_write_features, after the loop: the destination chunk[1..overflow]
\* has overflow - 1 elements
overflow_dst_len(overflow) == overflow - 1

\* burst_write_features, after the loop:
\* chunk[1..overflow].copy_from_slice(&buf[buf.len() - overflow..]) panics
\* when the two slices differ in length; otherwise self.write(&chunk).await?
burst_write_features_overflow ==
    /\ pc = "overflow"
    /\ burst = "write"
    /\ LET overflow == BufLen % FEATURE_RW_SIZE
           src == BufSlice(BufLen - overflow, overflow)
           copied == [k \in 1..(FEATURE_RW_SIZE + 1) |->
                        IF k >= 2 /\ k <= overflow_dst_len(overflow) + 1
                        THEN src[k - 1] ELSE chunk[k]] IN
       IF overflow_dst_len(overflow) # Len(src)
       THEN /\ Return("Panic")
            /\ UNCHANGED <<chunk, mem, trace>>
       ELSE /\ chunk' = copied
            /\ \E ok \in BOOLEAN :
                 /\ Log("write", FEATURES_IN, SubSeq(copied, 2, FEATURE_RW_SIZE + 1), ok)
                 /\ IF ok
                    THEN /\ mem' = PortWrite(SubSeq(copied, 2, FEATURE_RW_SIZE + 1))
                         /\ Goto(AfterBurst)
                    ELSE /\ Return("Bus")
                         /\ UNCHANGED mem
    /\ UNCHANGED <<regs, op, burst, start_addr, buf, chunk_i, set_addr,
                   in_incr, asic_lsb, prev_power_mode, total_delay_ms, codec, calc, chip_id, regs0, mem0, foreign,
                   written>>

\* burst_read_features, after the loop:
\* read_registers(FEATURES_IN, &mut buf[start..]).await?
burst_read_features_overflow ==
    /\ pc = "overflow"
    /\ burst = "read"
    /\ LET overflow == Len(buf) % FEATURE_RW_SIZE
           start == Len(buf) - overflow
           data == PortRead(overflow) IN
       \E ok \in BOOLEAN :
         /\ Log("read", FEATURES_IN, data, ok)
         /\ IF ok
            THEN /\ buf' = [k \in 1..Len(buf) |->
                              IF k > start THEN data[k - start] ELSE buf[k]]
                 /\ Goto(AfterBurst)
            ELSE /\ Return("Bus")
                 /\ UNCHANGED buf
    /\ UNCHANGED <<regs, mem, op, burst, start_addr, chunk, chunk_i, set_addr,
                   in_incr, asic_lsb, prev_power_mode, total_delay_ms, codec, calc, chip_id, regs0, mem0, foreign,
                   written>>

\* ------------------------------------------------------------ initialize
\* check_chip_id: read_u8(CHIP_ID).await?, compared with CHIP_ID
check_chip_id_accepts_any ==
    /\ pc = "check_chip_id"
    /\ \E ok \in BOOLEAN :
         /\ Log("read", REG_CHIP_ID, <<regs[REG_CHIP_ID]>>, ok)
         /\ chip_id' = IF ok THEN regs[REG_CHIP_ID] ELSE chip_id
         /\ IF ~ok THEN Return("Bus") ELSE Goto("init_pwr")
    /\ UNCHANGED <<regs, mem, op, burst, start_addr, buf, chunk, chunk_i, set_addr,
                   in_incr, asic_lsb, prev_power_mode, total_delay_ms, codec, calc,
                   regs0, mem0, foreign, written>>
check_chip_id ==
    /\ pc = "check_chip_id"
    /\ \E ok \in BOOLEAN :
         /\ Log("read", REG_CHIP_ID, <<regs[REG_CHIP_ID]>>, ok)
         /\ chip_id' = IF ok THEN regs[REG_CHIP_ID] ELSE chip_id
         /\ IF ~ok THEN Return("Bus")
            ELSE IF regs[REG_CHIP_ID] = CHIP_ID THEN Goto("init_pwr")
            ELSE Return("InvalidChipId")
    /\ UNCHANGED <<regs, mem, op, burst, start_addr, buf, chunk, chunk_i, set_addr,
                   in_incr, asic_lsb, prev_power_mode, total_delay_ms, codec, calc,
                   regs0, mem0, foreign, written>>

\* load_config_file: set_power_mode(PowerMode::empty()).await?
load_config_file_disable_aps ==
    /\ pc = "init_pwr"
    /\ \E ok \in BOOLEAN :
         /\ Log("write", PWR_CONF, <<0>>, ok)
         /\ IF ok
            THEN /\ regs' = [regs EXCEPT ![PWR_CONF] = 0]
                 /\ Goto("init_delay")
            ELSE /\ Return("Bus")
                 /\ UNCHANGED regs
    /\ UNCHANGED <<mem, op, burst, start_addr, buf, chunk, chunk_i, set_addr,
                   in_incr, asic_lsb, prev_power_mode, total_delay_ms, codec, calc, chip_id, regs0, mem0, foreign,
                   written>>

\* load_config_file: delay_us(SENSOR_TIME_SYNCHRONIZATION_US)
load_config_file_sync_delay ==
    /\ pc = "init_delay"
    /\ Log("delay", 0, <<SENSOR_TIME_SYNCHRONIZATION_US>>, TRUE)
    /\ Goto("init_ctrl_0")
    /\ UNCHANGED <<regs, mem, op, burst, start_addr, buf, chunk, chunk_i, set_addr,
                   in_incr, asic_lsb, prev_power_mode, total_delay_ms, codec, calc, chip_id, regs0, mem0, foreign,
                   written>>

\* load_config_file: write(&[INIT_CTRL, 0x00]).await?, then the call of
\* burst_write_features(0, CONFIG_FILE)
load_config_file_init_ctrl_0 ==
    /\ pc = "init_ctrl_0"
    /\ \E ok \in BOOLEAN :
         /\ Log("write", INIT_CTRL, <<0>>, ok)
         /\ IF ok
            THEN /\ regs' = [regs EXCEPT ![INIT_CTRL] = 0]
                 /\ start_addr' = 0
                 /\ burst' = "write"
                 /\ Goto("burst_entry")
            ELSE /\ Return("Bus")
                 /\ UNCHANGED <<regs, start_addr, burst>>
    /\ UNCHANGED <<mem, op, buf, chunk, chunk_i, set_addr,
                   in_incr, asic_lsb, prev_power_mode, total_delay_ms, codec, calc, chip_id, regs0, mem0, foreign,
                   written>>

\* load_config_file: write(&[INIT_CTRL, 0x01]).await?; let mut total_delay_ms = 0
load_config_file_init_ctrl_1 ==
    /\ pc = "init_ctrl_1"
    /\ \E ok \in BOOLEAN :
         /\ Log("write", INIT_CTRL, <<1>>, ok)
         /\ IF ok
            THEN /\ regs' = [regs EXCEPT ![INIT_CTRL] = 1]
                 /\ total_delay_ms' = 0
                 /\ Goto("poll_delay")
            ELSE /\ Return("Bus")
                 /\ UNCHANGED <<regs, total_delay_ms>>
    /\ UNCHANGED <<mem, op, burst, start_addr, buf, chunk, chunk_i, set_addr,
                   in_incr, asic_lsb, prev_power_mode, codec, calc, chip_id, regs0, mem0, foreign, written>>

\* load_config_file, loop head: the timeout test, delay_ms(50), total_delay_ms += 50
load_config_file_poll_delay_tests_late ==
    /\ pc = "poll_delay"
    /\ IF total_delay_ms > ASIC_INITIALIZATION_TIMEOUT_MS
       THEN /\ Return("ASICInitialization")
            /\ UNCHANGED <<total_delay_ms, trace>>
       ELSE /\ Log("delay", 0, <<50000>>, TRUE)
            /\ total_delay_ms' = total_delay_ms + 50
            /\ Goto("poll_read")
    /\ UNCHANGED <<regs, mem, op, burst, start_addr, buf, chunk, chunk_i, set_addr,
                   in_incr, asic_lsb, prev_power_mode, codec, calc, chip_id, regs0, mem0, foreign,
                   written>>
load_config_file_poll_delay ==
    /\ pc = "poll_delay"
    /\ IF total_delay_ms >= ASIC_INITIALIZATION_TIMEOUT_MS
       THEN /\ Return("ASICInitialization")
            /\ UNCHANGED <<total_delay_ms, trace>>
       ELSE /\ Log("delay", 0, <<50000>>, TRUE)
            /\ total_delay_ms' = total_delay_ms + 50
            /\ Goto("poll_read")
    /\ UNCHANGED <<regs, mem, op, burst, start_addr, buf, chunk, chunk_i, set_addr,
                   in_incr, asic_lsb, prev_power_mode, codec, calc, chip_id, regs0, mem0, foreign, written>>

\* load_config_file, loop body: match read_u8(INTERNAL_STATUS).await? & 0xF;
\* the device reports any of its status values
load_config_file_poll_read_any_nonzero ==
    /\ pc = "poll_read"
    /\ \E status \in StatusValues, ok \in BOOLEAN :
         /\ Log("read", INTERNAL_STATUS, <<status>>, ok)
         /\ regs' = [regs EXCEPT ![INTERNAL_STATUS] = status]
         /\ IF ~ok THEN Return("Bus")
            ELSE IF status % 16 = 0 THEN Goto("poll_delay")
            ELSE Goto("init_aps")
    /\ UNCHANGED <<mem, op, burst, start_addr, buf, chunk, chunk_i, set_addr,
                   in_incr, asic_lsb, prev_power_mode, total_delay_ms, codec, calc, chip_id, regs0,
                   mem0, foreign, written>>
load_config_file_poll_read ==
    /\ pc = "poll_read"
    /\ \E status \in StatusValues, ok \in BOOLEAN :
         /\ Log("read", INTERNAL_STATUS, <<status>>, ok)
         /\ regs' = [regs EXCEPT ![INTERNAL_STATUS] = status]
         /\ IF ~ok THEN Return("Bus")
            ELSE IF status % 16 = 0 THEN Goto("poll_delay")
            ELSE IF status % 16 = 1 THEN Goto("init_aps")
            ELSE Return("ASICInitialization")
    /\ UNCHANGED <<mem, op, burst, start_addr, buf, chunk, chunk_i, set_addr,
                   in_incr, asic_lsb, prev_power_mode, total_delay_ms, codec, calc, chip_id, regs0, mem0, foreign,
                   written>>

\* load_config_file: set_power_mode(PowerMode::ADVANCED_POWER_SAVE).await?; Ok(())
load_config_file_enable_aps_writes_empty ==
    /\ pc = "init_aps"
    /\ \E ok \in BOOLEAN :
         /\ Log("write", PWR_CONF, <<0>>, ok)
         /\ IF ok
            THEN /\ regs' = [regs EXCEPT ![PWR_CONF] = 0]
                 /\ Return("Ok")
            ELSE /\ Return("Bus")
                 /\ UNCHANGED regs
    /\ UNCHANGED <<mem, op, burst, start_addr, buf, chunk, chunk_i, set_addr,
                   in_incr, asic_lsb, prev_power_mode, total_delay_ms, codec, calc,
                   chip_id, regs0, mem0, foreign, written>>
load_config_file_enable_aps ==
    /\ pc = "init_aps"
    /\ \E ok \in BOOLEAN :
         /\ Log("write", PWR_CONF, <<ADVANCED_POWER_SAVE>>, ok)
         /\ IF ok
            THEN /\ regs' = [regs EXCEPT ![PWR_CONF] = ADVANCED_POWER_SAVE]
                 /\ Return("Ok")
            ELSE /\ Return("Bus")
                 /\ UNCHANGED regs
    /\ UNCHANGED <<mem, op, burst, start_addr, buf, chunk, chunk_i, set_addr,
                   in_incr, asic_lsb, prev_power_mode, total_delay_ms, codec, calc, chip_id, regs0, mem0, foreign,
                   written>>

\* --------------------------------------------------------- specifications
\* the region operations and the feature transactions on an initialized device
Next ==
    \/ call_burst_write_features
    \/ call_burst_read_features
    \/ call_read_back
    \/ call_read_features
    \/ call_reset_step_counter
    \/ disable_advanced_power_save_read
    \/ disable_advanced_power_save_write
    \/ disable_advanced_power_save_delay
    \/ begin_transfer
    \/ mutate
    \/ restore_advanced_power_save_write
    \/ restore_advanced_power_save_delay
    \/ burst_entry
    \/ set_feature_config_data_addr_lsb
    \/ set_feature_config_data_addr_msb
    \/ burst_write_features_chunk
    \/ burst_read_features_chunk
    \/ feature_config_data_addr_lsb
    \/ feature_config_data_addr_msb
    \/ burst_write_features_overflow
    \/ burst_read_features_overflow

\* the public operations that use the feature port: initialize and
\* reset_step_counter
PublicNext ==
    \/ call_initialize
    \/ call_reset_step_counter
    \/ check_chip_id
    \/ load_config_file_disable_aps
    \/ load_config_file_sync_delay
    \/ load_config_file_init_ctrl_0
    \/ load_config_file_init_ctrl_1
    \/ load_config_file_poll_delay
    \/ load_config_file_poll_read
    \/ load_config_file_enable_aps
    \/ disable_advanced_power_save_read
    \/ disable_advanced_power_save_write
    \/ disable_advanced_power_save_delay
    \/ begin_transfer
    \/ mutate
    \/ restore_advanced_power_save_write
    \/ restore_advanced_power_save_delay
    \/ burst_entry
    \/ set_feature_config_data_addr_lsb
    \/ set_feature_config_data_addr_msb
    \/ burst_write_features_chunk
    \/ burst_read_features_chunk
    \/ feature_config_data_addr_lsb
    \/ feature_config_data_addr_msb

\* the pointer registers hold a stale address when the public operation starts
PublicInit ==
    /\ Init
    /\ regs[RESERVED_REG_5B] = 5
    /\ regs[RESERVED_REG_5C] = 1
    /\ mem = <<>>

PublicSpec == PublicInit /\ [][PublicNext]_vars

Spec == Init /\ [][Next]_vars

\* the pointer codec on its own: an even address is split, then joined
CodecInit ==
    /\ InitCommon
    /\ regs = InitRegs(CHIP_ID, 3, <<0, 0>>)
    /\ mem = <<>>
    /\ \E h \in 0..MaxHalfAddr :
         codec = [pc |-> "split", addr |-> 2 * h, lsb |-> 0, msb |-> 0, joined |-> 0]
    /\ calc = [pc |-> "off", in |-> 0, mid |-> 0, out |-> <<>>, overflow |-> FALSE]

codec_split ==
    /\ codec.pc = "split"
    /\ codec' = [codec EXCEPT !.pc = "join",
                              !.lsb = split_feature_conf_data_address(codec.addr)[1],
                              !.msb = split_feature_conf_data_address(codec.addr)[2]]
    /\ UNCHANGED <<regs, mem, op, pc, result, Locals, calc, regs0, mem0, foreign, written, trace>>

codec_join ==
    /\ codec.pc = "join"
    /\ codec' = [codec EXCEPT !.pc = "done",
                              !.joined = join_feature_conf_data_address(codec.lsb, codec.msb)]
    /\ UNCHANGED <<regs, mem, op, pc, result, Locals, calc, regs0, mem0, foreign, written, trace>>

CodecNext == codec_split \/ codec_join

CodecSpec == CodecInit /\ [][CodecNext]_vars

\* temperature_celsius on its own: the TEMPERATURE register is read, the byte
\* the device reports is converted
TemperatureInit ==
    /\ InitCommon
    /\ regs = InitRegs(CHIP_ID, 3, <<0, 0>>)
    /\ mem = <<>>
    /\ codec = [pc |-> "off", addr |-> 0, lsb |-> 0, msb |-> 0, joined |-> 0]
    /\ calc = [pc |-> "temperature_read", in |-> 0, mid |-> 0, out |-> <<>>,
               overflow |-> FALSE]

\* let temp = self.read_u8(register::TEMPERATURE).await?
temperature_celsius_read ==
    /\ calc.pc = "temperature_read"
    /\ \E temp \in 0..255, ok \in BOOLEAN :
         calc' = IF ok THEN [calc EXCEPT !.pc = "temperature_convert", !.in = temp]
                 ELSE [calc EXCEPT !.pc = "temperature_bus_error"]
    /\ UNCHANGED <<regs, mem, op, pc, result, Locals, codec, regs0, mem0, foreign,
                   written, trace>>

\* Ok(sensor_temperature_as_celsius(temp))
temperature_celsius_return ==
    /\ calc.pc = "temperature_convert"
    /\ calc' = [calc EXCEPT !.pc = "temperature_done",
                            !.out = sensor_temperature_as_celsius(calc.in)]
    /\ UNCHANGED <<regs, mem, op, pc, result, Locals, codec, regs0, mem0, foreign,
                   written, trace>>

TemperatureNext == temperature_celsius_read \/ temperature_celsius_return

TemperatureSpec == TemperatureInit /\ [][TemperatureNext]_vars

\* the BCD conversions of the PCF8563 driver on their own: a field of a time or
\* date is converted by set_time / set_date and parsed back
BcdInit ==
    /\ InitCommon
    /\ regs = InitRegs(CHIP_ID, 3, <<0, 0>>)
    /\ mem = <<>>
    /\ codec = [pc |-> "off", addr |-> 0, lsb |-> 0, msb |-> 0, joined |-> 0]
    /\ \E n \in 0..MaxDec :
         calc = [pc |-> "dec_to_bcd", in |-> n, mid |-> 0, out |-> <<>>,
                 overflow |-> FALSE]

set_time_dec_to_bcd ==
    /\ calc.pc = "dec_to_bcd"
    /\ calc' = [calc EXCEPT !.pc = "bcd_to_dec",
                            !.mid = dec_to_bcd(calc.in),
                            !.overflow = dec_to_bcd_overflows(calc.in)]
    /\ UNCHANGED <<regs, mem, op, pc, result, Locals, codec, regs0, mem0, foreign,
                   written, trace>>

parse_time_bcd_to_dec ==
    /\ calc.pc = "bcd_to_dec"
    /\ calc' = [calc EXCEPT !.pc = "bcd_done",
                            !.out = <<bcd_to_dec(calc.mid)>>,
                            !.overflow = calc.overflow \/ bcd_to_dec_overflows(calc.mid)]
    /\ UNCHANGED <<regs, mem, op, pc, result, Locals, codec, regs0, mem0, foreign,
                   written, trace>>

BcdNext == set_time_dec_to_bcd \/ parse_time_bcd_to_dec

BcdSpec == BcdInit /\ [][BcdNext]_vars

\* the bus is handed out without a lock (init_i2c): while a region operation
\* is suspended, other code holding the bus writes a pointer register of the
\* same device
foreign_pointer_write ==
    /\ pc \notin {"idle", "done"}
    /\ foreign < MaxForeign
    /\ \E reg \in {RESERVED_REG_5B, RESERVED_REG_5C}, v \in {0, 9} :
         regs' = [regs EXCEPT ![reg] = v]
    /\ foreign' = foreign + 1
    /\ UNCHANGED <<mem, op, pc, result, Locals, codec, calc, regs0, mem0, written, trace>>

SharedBusInit ==
    /\ Init
    /\ regs = InitRegs(CHIP_ID, 0, <<0, 0>>)
    /\ mem = <<>>

\* the region operations on a bus shared without serialization
SharedBusNext ==
    \/ call_burst_write_features
    \/ call_burst_read_features
    \/ burst_entry
    \/ set_feature_config_data_addr_lsb
    \/ set_feature_config_data_addr_msb
    \/ burst_write_features_chunk
    \/ burst_read_features_chunk
    \/ feature_config_data_addr_lsb
    \/ feature_config_data_addr_msb
    \/ burst_write_features_overflow
    \/ burst_read_features_overflow
    \/ foreign_pointer_write

SharedBusSpec == SharedBusInit /\ [][SharedBusNext]_vars

\* ---------------------------------------- the tail of the config file load
\* initialize on an error-free bus, at the head of the chunk loop with all but
\* TailChunks chunks of the config file written: the state PublicSpec reaches
\* there (LoadedPrefixIsReached checks it), written out so that the end of the
\* load and the ASIC polling can be examined on short behaviours
LoadedChunks == (CONFIG_FILE_SIZE \div FEATURE_RW_SIZE) - TailChunks

LoadedTraceEntry(pwr, i) ==
    LET e(kind, reg, data, aps, ptr) ==
            [kind |-> kind, reg |-> reg, data |-> data, ok |-> TRUE, aps |-> aps, ptr |-> ptr]
        k == (i - 7) \div 5
        at == FEATURE_RW_SIZE * k
        next == at + FEATURE_RW_SIZE
    IN  IF i = 1 THEN e("read", REG_CHIP_ID, <<CHIP_ID>>, pwr % 2, 42)
        ELSE IF i = 2 THEN e("write", PWR_CONF, <<0>>, pwr % 2, 42)
        ELSE IF i = 3 THEN e("delay", 0, <<SENSOR_TIME_SYNCHRONIZATION_US>>, 0, 42)
        ELSE IF i = 4 THEN e("write", INIT_CTRL, <<0>>, 0, 42)
        ELSE IF i = 5 THEN e("write", RESERVED_REG_5B, <<0>>, 0, 42)
        ELSE IF i = 6 THEN e("write", RESERVED_REG_5C, <<0>>, 0, 32)
        ELSE IF (i - 7) % 5 = 0
             THEN e("write", FEATURES_IN,
                    [b \in 1..FEATURE_RW_SIZE |-> ConfigFileByte(at + b - 1)], 0, at)
        ELSE IF (i - 7) % 5 = 1 THEN e("read", RESERVED_REG_5B, <<split_lsb(at)>>, 0, at)
        ELSE IF (i - 7) % 5 = 2 THEN e("read", RESERVED_REG_5C, <<split_msb(at)>>, 0, at)
        ELSE IF (i - 7) % 5 = 3 THEN e("write", RESERVED_REG_5B, <<split_lsb(next)>>, 0, at)
        ELSE e("write", RESERVED_REG_5C, <<split_msb(next)>>, 0,
               ((split_msb(at) * 16) + split_lsb(next)) * 2)

LoadedRegs(n) ==
    [r \in Regs |->
        IF r = REG_CHIP_ID THEN CHIP_ID
        ELSE IF r = RESERVED_REG_5B THEN split_lsb(FEATURE_RW_SIZE * n)
        ELSE IF r = RESERVED_REG_5C THEN split_msb(FEATURE_RW_SIZE * n)
        ELSE IF r = PWR_CTRL THEN 4
        ELSE 0]

LoadedPrefix(pwr, n) ==
    /\ regs = LoadedRegs(n)
    /\ mem = [a \in 0..(FEATURE_RW_SIZE * n - 1) |-> ConfigFileByte(a)]
    /\ op = "initialize"
    /\ pc = "chunk"
    /\ result = "none"
    /\ burst = "write"
    /\ start_addr = 0
    /\ buf = <<>>
    /\ chunk = <<FEATURES_IN>> \o [b \in 1..FEATURE_RW_SIZE |->
                                    ConfigFileByte(FEATURE_RW_SIZE * (n - 1) + b - 1)]
    /\ chunk_i = n
    /\ set_addr = FEATURE_RW_SIZE * n
    /\ in_incr = TRUE
    /\ asic_lsb = split_lsb(FEATURE_RW_SIZE * (n - 1))
    /\ prev_power_mode = 0
    /\ total_delay_ms = 0
    /\ chip_id = CHIP_ID
    /\ codec = [pc |-> "off", addr |-> 0, lsb |-> 0, msb |-> 0, joined |-> 0]
    /\ calc = [pc |-> "off", in |-> 0, mid |-> 0, out |-> <<>>, overflow |-> FALSE]
    /\ regs0 = InitRegs(CHIP_ID, pwr, <<5, 1>>)
    /\ mem0 = <<>>
    /\ foreign = 0
    /\ written = <<>>
    /\ trace = [i \in 1..(6 + 5 * n) |-> LoadedTraceEntry(pwr, i)]

\* under PublicSpec: the state of an error-free initialize at the head of the
\* chunk loop with LoadedChunks chunks written is the one ConfigTailSpec starts in
LoadedPrefixIsReached ==
    (op = "initialize" /\ pc = "chunk" /\ chunk_i = LoadedChunks)
    => LoadedPrefix(regs0[PWR_CONF], LoadedChunks)

ConfigTailInit == \E pwr \in 0..3 : LoadedPrefix(pwr, LoadedChunks)

ConfigTailNext ==
    \/ burst_write_features_chunk
    \/ feature_config_data_addr_lsb
    \/ feature_config_data_addr_msb
    \/ set_feature_config_data_addr_lsb
    \/ set_feature_config_data_addr_msb
    \/ load_config_file_init_ctrl_1
    \/ load_config_file_poll_delay
    \/ load_config_file_poll_read
    \/ load_config_file_enable_aps

ConfigTailSpec == ConfigTailInit /\ [][ConfigTailNext]_vars

\* the executor polls the future of initialize until it completes, and every
\* bus transaction and every delay it awaits completes
ConfigTailFairSpec == ConfigTailSpec /\ WF_vars(ConfigTailNext)

TypeOK ==
    /\ pc \in {"idle", "done", "disable_read", "disable_write", "disable_delay",
               "transfer", "mutate", "restore_write", "restore_delay", "burst_entry",
               "set_lsb", "set_msb", "chunk", "incr_read_lsb", "incr_read_msb",
               "overflow", "check_chip_id", "init_pwr", "init_delay", "init_ctrl_0",
               "init_ctrl_1", "poll_delay", "poll_read", "init_aps"}
    /\ result \in {"none", "Ok", "Bus", "Panic", "InvalidChipId", "ASICInitialization"}
    /\ (pc = "done") = (result # "none")
    /\ \A r \in Regs : regs[r] \in 0..255

\* ------------------------------------------------- vocabulary of the claims
Last == trace[Len(trace)]
FeatureTransaction == op \in {"set_features", "read_features"}
ApsSetAtStart == regs0[PWR_CONF] % 2 = 1
PwrConfWrites == {i \in 1..Len(trace) : trace[i].kind = "write" /\ trace[i].reg = PWR_CONF}
PwrConfReads == {i \in 1..Len(trace) : trace[i].kind = "read" /\ trace[i].reg = PWR_CONF}
ErrorFree == \A i \in 1..Len(trace) : trace[i].ok
TransferRegs == {RESERVED_REG_5B, RESERVED_REG_5C, FEATURES_IN}
DeviceBytes(start, n) == [k \in 1..n |-> MemAt(start + k - 1)]
Mem0At(a) == IF a \in DOMAIN mem0 THEN mem0[a]
             ELSE IF a \in MemAddrs THEN InitMem(a) ELSE 0
DeviceBytes0(start, n) == [k \in 1..n |-> Mem0At(start + k - 1)]
IsPortWrite(e) == e.kind = "write" /\ e.reg = FEATURES_IN
IsPortRead(e) == e.kind = "read" /\ e.reg = FEATURES_IN
PortWriteSeq == SelectSeq(trace, IsPortWrite)
PortReadSeq == SelectSeq(trace, IsPortRead)

\* C1: when a feature transaction that started with advanced-power-save set
\* returns a bus error raised by a pointer write, a pointer read-back or a port
\* chunk, the restore write of the original power mode has been issued and the
\* bit is set again.
C1_RestoreAfterTransferError ==
    (/\ pc = "done"
     /\ FeatureTransaction
     /\ ApsSetAtStart
     /\ result = "Bus"
     /\ Last.reg \in TransferRegs)
    => (/\ regs[PWR_CONF] % 2 = 1
        /\ \E i \in PwrConfWrites : trace[i].data = <<regs0[PWR_CONF]>>)

\* C2: every access to the FEATURES_IN port issued by initialize or
\* reset_step_counter finds the advanced-power-save bit of the device at 0.
C2_PortOnlyWithApsOff ==
    (trace # <<>> /\ Last.reg = FEATURES_IN /\ Last.kind # "delay") => Last.aps = 0

C2_Witness ==
    /\ op = "set_features"
    /\ ApsSetAtStart
    /\ trace # <<>>
    /\ Last.reg = FEATURES_IN
    /\ Last.kind = "write"
    /\ Last.ok

\* C3: a successful feature transaction that started with advanced-power-save
\* set read PWR_CONF exactly once, as its first bus operation, wrote it exactly
\* twice, first the original value without the ADVANCED_POWER_SAVE bit and last
\* the original value, and leaves PWR_CONF as it found it.
C3_BracketOnSuccess ==
    (pc = "done" /\ FeatureTransaction /\ ApsSetAtStart /\ result = "Ok")
    => (/\ PwrConfReads = {1}
        /\ Cardinality(PwrConfWrites) = 2
        /\ \E i, j \in PwrConfWrites :
             /\ i < j
             /\ i = 2
             /\ trace[i].data = <<regs0[PWR_CONF] - ADVANCED_POWER_SAVE>>
             /\ trace[j].data = <<regs0[PWR_CONF]>>
             /\ \A k \in (j + 1)..Len(trace) : trace[k].kind = "delay"
        /\ regs[PWR_CONF] = regs0[PWR_CONF])

C3_Witness ==
    /\ pc = "done"
    /\ op = "set_features"
    /\ result = "Ok"
    /\ regs0[PWR_CONF] = ADVANCED_POWER_SAVE + FIFO_SELF_WAKEUP

\* C4: a feature transaction that starts with advanced-power-save clear never
\* writes PWR_CONF, whether it succeeds or fails.
C4_NoBracketWhenOff ==
    (FeatureTransaction /\ ~ApsSetAtStart) => PwrConfWrites = {}

C4_Witness ==
    /\ pc = "done"
    /\ op = "set_features"
    /\ regs0[PWR_CONF] = FIFO_SELF_WAKEUP
    /\ result = "Ok"

\* C5: on an error-free bus a region write of even length at an even offset
\* returns Ok, and so does the read-back of the same range, which returns
\* exactly the bytes written.
C5_WriteReadRoundTrip ==
    (/\ pc = "done"
     /\ op \in {"burst_write_features", "read_back"}
     /\ Len(buf) % 2 = 0
     /\ start_addr % 2 = 0
     /\ ErrorFree)
    => (result = "Ok" /\ (op = "read_back" => buf = written))

\* C6: on an error-free bus a region write of even length at an even offset
\* returns without a panic and leaves the device bytes at
\* [start_addr, start_addr + len) equal to the data; when len is not a multiple
\* of 8 its last bus operation is a port write that starts with the last
\* len mod 8 bytes of the data.
C6_WritePostcondition ==
    (/\ pc = "done"
     /\ op = "burst_write_features"
     /\ Len(buf) % 2 = 0
     /\ start_addr % 2 = 0
     /\ ErrorFree)
    => (/\ result = "Ok"
        /\ DeviceBytes(start_addr, Len(buf)) = buf
        /\ Len(buf) % FEATURE_RW_SIZE > 0 =>
             /\ Last.kind = "write"
             /\ Last.reg = FEATURES_IN
             /\ SubSeq(Last.data, 1, Len(buf) % FEATURE_RW_SIZE)
                  = SubSeq(buf, Len(buf) - (Len(buf) % FEATURE_RW_SIZE) + 1, Len(buf)))

\* C7: a successful region read at an even offset has filled the buffer with
\* the device bytes at [start_addr, start_addr + len), in order.
C7_ReadPostcondition ==
    (/\ \/ pc = "done" /\ result = "Ok"
           /\ op \in {"burst_read_features", "read_back", "read_features"}
        \/ pc = "mutate"
     /\ start_addr % 2 = 0)
    => buf = DeviceBytes(start_addr, Len(buf))

C7_Witness ==
    /\ pc = "done"
    /\ result = "Ok"
    /\ op = "burst_read_features"
    /\ start_addr = 100
    /\ Len(buf) = 14
    /\ regs0[RESERVED_REG_5B] = 5

\* C8: a region read or write called with an odd buffer length fails without
\* having issued any bus transaction.
C8_OddLengthNoBusTraffic ==
    (op \in {"read_features", "burst_read_features", "burst_write_features"}
     /\ Len(buf) % 2 = 1)
    => (trace = <<>> /\ result \in {"none", "Panic"})

\* C9: a region read or write called with an odd start offset fails as a
\* precondition violation without having issued any bus transaction.
C9_OddOffsetNoBusTraffic ==
    (op \in {"burst_read_features", "burst_write_features"} /\ start_addr % 2 = 1)
    => (trace = <<>> /\ result \in {"none", "Panic"})

\* C10: joining the two register values an even address in [0, 510] was split
\* into gives the address back.
C10_CodecRoundTrip ==
    (codec.pc = "done") => (codec.joined = codec.addr)

C10_Witness ==
    /\ codec.pc = "done"
    /\ codec.addr = 510
    /\ codec.lsb = 15
    /\ codec.msb = 15

\* C11: a successful region write of L bytes, L a multiple of 8, at an even
\* offset issued exactly L/8 port writes of 8 data bytes each, the k-th
\* (from 0) with the pointer registers encoding start_addr + 8k; the 64-byte
\* window of set_features is written at 0x17F8, 0x1800, ..., 0x1830.
C11_WriteChunking ==
    (/\ pc = "done"
     /\ result = "Ok"
     /\ op \in {"burst_write_features", "set_features"}
     /\ start_addr % 2 = 0
     /\ Len(buf) % FEATURE_RW_SIZE = 0)
    => (/\ Len(PortWriteSeq) = Len(buf) \div FEATURE_RW_SIZE
        /\ \A k \in 1..Len(PortWriteSeq) :
             /\ PortWriteSeq[k].ptr = start_addr + FEATURE_RW_SIZE * (k - 1)
             /\ PortWriteSeq[k].data
                  = SubSeq(buf, FEATURE_RW_SIZE * (k - 1) + 1, FEATURE_RW_SIZE * k))

C11_Witness ==
    /\ pc = "done"
    /\ result = "Ok"
    /\ op = "set_features"
    /\ Len(PortWriteSeq) = 8
    /\ PortWriteSeq[1].ptr = 6136
    /\ PortWriteSeq[2].ptr = 6144
    /\ PortWriteSeq[8].ptr = 6192

\* C12: a successful region read of even length L, L not a multiple of 8, at
\* an even offset issued floor(L/8) port reads of 8 bytes, the k-th (from 0)
\* with the pointer at start_addr + 8k, then exactly one port read of L mod 8
\* bytes with the pointer at start_addr + 8*floor(L/8), and no pointer
\* register access after that last read.
C12_ReadChunking ==
    (/\ pc = "done"
     /\ result = "Ok"
     /\ op \in {"burst_read_features", "read_features"}
     /\ start_addr % 2 = 0
     /\ Len(buf) % FEATURE_RW_SIZE > 0)
    => LET n == Len(buf) \div FEATURE_RW_SIZE
           last_read == CHOOSE i \in 1..Len(trace) :
                          /\ IsPortRead(trace[i])
                          /\ \A j \in (i + 1)..Len(trace) : ~IsPortRead(trace[j])
       IN /\ Len(PortReadSeq) = n + 1
          /\ \A k \in 1..n :
               /\ Len(PortReadSeq[k].data) = FEATURE_RW_SIZE
               /\ PortReadSeq[k].ptr = start_addr + FEATURE_RW_SIZE * (k - 1)
          /\ Len(PortReadSeq[n + 1].data) = Len(buf) % FEATURE_RW_SIZE
          /\ PortReadSeq[n + 1].ptr = start_addr + FEATURE_RW_SIZE * n
          /\ \A j \in (last_read + 1)..Len(trace) :
               trace[j].reg \notin {RESERVED_REG_5B, RESERVED_REG_5C}

C12_Witness ==
    /\ pc = "done"
    /\ result = "Ok"
    /\ op = "burst_read_features"
    /\ start_addr = 100
    /\ Len(buf) = 10
    /\ Len(PortReadSeq) = 2
    /\ PortReadSeq[1].ptr = 100
    /\ PortReadSeq[2].ptr = 108

\* C13: a failed pointer write, pointer read-back or port transaction is the
\* last thing the driver issued (nothing follows it and it is not retried) and
\* the call has returned it as Error::Bus.
C13_FirstErrorAborts ==
    \A i \in 1..Len(trace) :
        (trace[i].reg \in TransferRegs /\ ~trace[i].ok)
        => (i = Len(trace) /\ pc = "done" /\ result = "Bus")

C13_Witness ==
    /\ op = "burst_write_features"
    /\ pc = "done"
    /\ result = "Bus"
    /\ IsPortWrite(Last)
    /\ ~Last.ok
    /\ Len(PortWriteSeq) = 2

\* C14: a successful set_features leaves the 64-byte window at START equal to
\* the mutator applied to the window as it was when the call started, leaves
\* every byte outside the window as it was, and called the mutator exactly
\* once, after all 8 port reads and before the first port write.
C14_SetFeaturesReadModifyWrite ==
    (pc = "done" /\ result = "Ok" /\ op = "set_features")
    => LET window == START..(START + FEATURE_SIZE - 1)
           calls == {i \in 1..Len(trace) : trace[i].kind = "mutator"}
       IN /\ DeviceBytes(START, FEATURE_SIZE)
               = reset_step_counter_mutator(DeviceBytes0(START, FEATURE_SIZE))
          /\ \A a \in ((DOMAIN mem) \cup (DOMAIN mem0)) \ window : MemAt(a) = Mem0At(a)
          /\ Cardinality(calls) = 1
          /\ Len(PortReadSeq) = FEATURE_SIZE \div FEATURE_RW_SIZE
          /\ \A m \in calls, i \in 1..Len(trace) :
               /\ IsPortRead(trace[i]) => i < m
               /\ IsPortWrite(trace[i]) => i > m

C14_Witness ==
    /\ pc = "done"
    /\ result = "Ok"
    /\ op = "set_features"
    /\ Mem0At(START + STEP_COUNTER_SETTINGS_26 + 1) = 11
    /\ MemAt(START + STEP_COUNTER_SETTINGS_26 + 1) = 15

\* C15: in a feature transaction every successful write of PWR_CONF (the
\* clearing one and the restoring one) is followed by the 450 us delay before
\* any other register access and before the call returns.
C15_SyncDelayAfterPowerModeWrite ==
    FeatureTransaction
    => \A i \in PwrConfWrites :
         trace[i].ok
         => IF i = Len(trace)
            THEN pc \in {"disable_delay", "restore_delay"}
            ELSE /\ trace[i + 1].kind = "delay"
                 /\ trace[i + 1].data = <<SENSOR_TIME_SYNCHRONIZATION_US>>

C15_Witness ==
    /\ pc = "done"
    /\ result = "Ok"
    /\ op = "read_features"
    /\ ApsSetAtStart
    /\ trace[3].kind = "delay"
    /\ Last.kind = "delay"
    /\ Len(trace) > 3

\* C16: a region operation first writes the two pointer registers with its
\* start offset, every port transaction then happens at an address fixed by
\* the start offset alone, and the bytes a read returns and the memory a write
\* leaves are a function of the start offset, the buffer and the memory at the
\* start: the pointer left by earlier calls has no part in it.
C16_NoPointerLeak ==
    (op \in {"burst_read_features", "burst_write_features"})
    => LET base == 2 * (start_addr \div 2)
           port == SelectSeq(trace, LAMBDA e : e.reg = FEATURES_IN)
       IN /\ Len(trace) >= 1 =>
               /\ trace[1].kind = "write"
               /\ trace[1].reg = RESERVED_REG_5B
               /\ trace[1].data = <<(start_addr \div 2) % 16>>
          /\ Len(trace) >= 2 =>
               /\ trace[2].kind = "write"
               /\ trace[2].reg = RESERVED_REG_5C
               /\ trace[2].data = <<(start_addr \div 2) \div 16>>
          /\ \A k \in 1..Len(port) : port[k].ptr = base + FEATURE_RW_SIZE * (k - 1)
          /\ (pc = "done" /\ result = "Ok" /\ op = "burst_read_features")
               => buf = DeviceBytes0(base, Len(buf))
          /\ (pc = "done" /\ result = "Ok" /\ op = "burst_write_features")
               => \A a \in (DOMAIN mem) \cup (DOMAIN mem0) :
                    MemAt(a) = IF a >= base /\ a < base + Len(buf)
                               THEN buf[a - base + 1] ELSE Mem0At(a)

C16_Witness ==
    /\ pc = "done"
    /\ result = "Ok"
    /\ op = "burst_write_features"
    /\ start_addr = 2
    /\ Len(buf) = 16
    /\ regs0[RESERVED_REG_5B] = 5
    /\ regs0[RESERVED_REG_5C] = 1

\* C17: a region read with an empty buffer issues no port transaction and
\* changes no configuration byte; through read_features it still clears and
\* restores PWR_CONF when advanced-power-save was set.
C17_EmptyReadStillBrackets ==
    (op \in {"read_features", "burst_read_features"} /\ Len(buf) = 0)
    => (/\ \A i \in 1..Len(trace) : trace[i].reg # FEATURES_IN
        /\ mem = mem0
        /\ (op = "read_features" /\ pc = "done" /\ result = "Ok" /\ ApsSetAtStart)
             => /\ \E i \in PwrConfWrites : trace[i].data = <<difference_aps(regs0[PWR_CONF])>>
                /\ Last.kind = "delay"
                /\ trace[Len(trace) - 1].kind = "write"
                /\ trace[Len(trace) - 1].reg = PWR_CONF
                /\ trace[Len(trace) - 1].data = <<regs0[PWR_CONF]>>)

C17_Witness ==
    /\ op = "read_features"
    /\ Len(buf) = 0
    /\ pc = "done"
    /\ result = "Ok"
    /\ ApsSetAtStart
    /\ Cardinality(PwrConfWrites) = 2

\* C18: when the restore write of PWR_CONF fails, the feature transaction has
\* returned that bus error, not Ok.
C18_RestoreErrorReturned ==
    (FeatureTransaction /\ \E i \in PwrConfWrites : i > 2 /\ ~trace[i].ok)
    => (pc = "done" /\ result = "Bus")

C18_Witness ==
    /\ op = "set_features"
    /\ pc = "done"
    /\ result = "Bus"
    /\ Len(trace) > 2
    /\ Last.kind = "write"
    /\ Last.reg = PWR_CONF
    /\ ~Last.ok

\* C19: nothing in the driver keeps other bus traffic out of a region
\* operation; as long as none slips in, a successful read at an even offset
\* returns the device bytes of its range and a successful write changes
\* exactly its range (a foreign pointer write in between can break both).
C19_SerializedTransferIsExact ==
    (/\ pc = "done"
     /\ result = "Ok"
     /\ foreign = 0
     /\ start_addr % 2 = 0)
    => (/\ op = "burst_read_features" => buf = DeviceBytes0(start_addr, Len(buf))
        /\ op = "burst_write_features" =>
             /\ DeviceBytes(start_addr, Len(buf)) = buf
             /\ DOMAIN mem \subseteq start_addr..(start_addr + Len(buf) - 1))

\* an interleaved foreign write made a successful read return other bytes
C19_Witness ==
    /\ pc = "done"
    /\ result = "Ok"
    /\ foreign > 0
    /\ start_addr % 2 = 0
    /\ op = "burst_read_features"
    /\ buf # DeviceBytes0(start_addr, Len(buf))

\* C20: once load_config_file has written the whole config file, the address
\* held by the device's two pointer registers is feature_offset::START.
C20_PointerAfterConfigLoad ==
    (op = "initialize" /\ pc = "init_ctrl_1") => DevPtr = START

\* C21: sensor_temperature_as_celsius maps the byte 0x80 to None and every
\* other byte to Some of the byte read as a signed 8-bit value plus 23; every
\* valid result lies in -104..150 (0x7F gives 150, 0x00 gives 23, 0x81 gives
\* -104), so the i16 addition never overflows.
C21_TemperatureConversion ==
    (calc.pc = "temperature_done") =>
        /\ (calc.in = 128) = (calc.out = <<>>)
        /\ calc.in < 128 => calc.out = <<calc.in + 23>>
        /\ calc.in > 128 => calc.out = <<calc.in - 256 + 23>>
        /\ calc.in = 127 => calc.out = <<150>>
        /\ calc.in = 0 => calc.out = <<23>>
        /\ calc.in = 129 => calc.out = <<-104>>
        /\ calc.out # <<>> => calc.out[1] \in -104..150

C21_Witness ==
    /\ calc.pc = "temperature_done"
    /\ calc.in = 129
    /\ calc.out = <<-104>>

\* C22: bcd_to_dec(dec_to_bcd(n)) = n for every n in 0..99, and neither
\* conversion overflows u8 on that range.
C22_BcdRoundTrip ==
    (calc.pc = "bcd_done") =>
        /\ calc.out = <<calc.in>>
        /\ ~calc.overflow
        /\ calc.mid = ((calc.in \div 10) * 16) + (calc.in % 10)

C22_Witness ==
    /\ calc.pc = "bcd_done"
    /\ calc.in = 99
    /\ calc.mid = 153
    /\ calc.out = <<99>>

\* C23: a successful initialize issued its bus operations in this order: the
\* read of CHIP_ID (0x13), the write PWR_CONF := 0, the 450 us delay, the write
\* INIT_CTRL := 0, the 768 chunks of the config file through FEATURES_IN at
\* the pointers 0, 8, .., the write INIT_CTRL := 1, then only polls of
\* INTERNAL_STATUS and their delays, and, right after a poll whose low nibble
\* read 0x01, the write PWR_CONF := ADVANCED_POWER_SAVE as the last operation.
\* INIT_CTRL is 0 whenever a chunk of the config file has been written.
C23_InitializeOrder ==
    LET chunks == CONFIG_FILE_SIZE \div FEATURE_RW_SIZE
        load == 6 + 5 * chunks + 1
        n == Len(trace)
    IN  /\ (op = "initialize" /\ trace # <<>> /\ IsPortWrite(Last) /\ Last.ok)
              => regs[INIT_CTRL] = 0
        /\ (op = "initialize" /\ pc = "done" /\ result = "Ok") =>
              /\ n >= load + 3
              /\ trace[1].kind = "read" /\ trace[1].reg = REG_CHIP_ID
              /\ trace[1].data = <<CHIP_ID>>
              /\ trace[2].kind = "write" /\ trace[2].reg = PWR_CONF
              /\ trace[2].data = <<0>>
              /\ trace[3].kind = "delay"
              /\ trace[3].data = <<SENSOR_TIME_SYNCHRONIZATION_US>>
              /\ trace[4].kind = "write" /\ trace[4].reg = INIT_CTRL
              /\ trace[4].data = <<0>>
              /\ Len(PortWriteSeq) = chunks
              /\ \A k \in 1..chunks :
                    /\ PortWriteSeq[k].ptr = FEATURE_RW_SIZE * (k - 1)
                    /\ PortWriteSeq[k].data =
                          [b \in 1..FEATURE_RW_SIZE |->
                              ConfigFileByte(FEATURE_RW_SIZE * (k - 1) + b - 1)]
              /\ \A i \in 5..(load - 1) :
                    /\ trace[i].reg \in TransferRegs
                    /\ trace[i].kind \in {"read", "write"}
              /\ trace[load].kind = "write" /\ trace[load].reg = INIT_CTRL
              /\ trace[load].data = <<1>>
              /\ \A i \in (load + 1)..(n - 1) :
                    \/ trace[i].kind = "delay"
                    \/ trace[i].kind = "read" /\ trace[i].reg = INTERNAL_STATUS
              /\ trace[n - 1].kind = "read" /\ trace[n - 1].reg = INTERNAL_STATUS
              /\ trace[n - 1].data[1] % 16 = 1
              /\ \A i \in (load + 1)..(n - 2) :
                    trace[i].kind = "read" => trace[i].data[1] % 16 = 0
              /\ trace[n].kind = "write" /\ trace[n].reg = PWR_CONF
              /\ trace[n].data = <<ADVANCED_POWER_SAVE>>
              /\ \A i \in 1..n : trace[i].ok

C23_Witness ==
    /\ op = "initialize"
    /\ pc = "done"
    /\ result = "Ok"
    /\ total_delay_ms = 100
    /\ Len(PortWriteSeq) = CONFIG_FILE_SIZE \div FEATURE_RW_SIZE
    /\ Last.reg = PWR_CONF
    /\ regs[INIT_CTRL] = 1

\* C24: a successful reset_step_counter sets bit 2 (0b100) of byte 0x37 of the
\* feature window and writes back every other bit of that byte and all the
\* other 63 bytes of the window as it read them.
C24_ResetStepCounterFrame ==
    (pc = "done" /\ result = "Ok" /\ op = "set_features") =>
        /\ Len(PortReadSeq) = FEATURE_SIZE \div FEATURE_RW_SIZE
        /\ Len(PortWriteSeq) = FEATURE_SIZE \div FEATURE_RW_SIZE
        /\ \A k \in 0..(FEATURE_SIZE - 1) :
             LET j == (k \div FEATURE_RW_SIZE) + 1
                 b == (k % FEATURE_RW_SIZE) + 1
                 read == PortReadSeq[j].data[b]
                 wrote == PortWriteSeq[j].data[b]
             IN  /\ read = Mem0At(START + k)
                 /\ wrote = MemAt(START + k)
                 /\ IF k = STEP_COUNTER_SETTINGS_26 + 1
                    THEN /\ (wrote \div 4) % 2 = 1
                         /\ wrote % 4 = read % 4
                         /\ wrote \div 8 = read \div 8
                    ELSE wrote = read

C24_Witness ==
    /\ pc = "done"
    /\ result = "Ok"
    /\ op = "set_features"
    /\ Len(PortReadSeq) = 8
    /\ Len(PortWriteSeq) = 8
    /\ PortReadSeq[7].data[8] = 11
    /\ PortWriteSeq[7].data[8] = 15
    /\ PortWriteSeq[7].data[7] = PortReadSeq[7].data[7]

\* what load_config_file did between the write INIT_CTRL := 1 and its return
C25_PollOutcome ==
    LET load == 6 + 5 * (CONFIG_FILE_SIZE \div FEATURE_RW_SIZE) + 1
        n == Len(trace)
        after == (load + 1)..n
        polls == {i \in after : trace[i].kind = "read" /\ trace[i].reg = INTERNAL_STATUS}
        delays == {i \in after : trace[i].kind = "delay"}
        last == CHOOSE i \in polls : \A j \in polls : j <= i
        nibble(i) == trace[i].data[1] % 16
    IN  /\ polls # {}
        /\ Cardinality(polls) <= 4
        /\ Cardinality(delays) = Cardinality(polls)
        /\ total_delay_ms = 50 * Cardinality(polls)
        /\ total_delay_ms <= ASIC_INITIALIZATION_TIMEOUT_MS
        /\ \A i \in polls : trace[i - 1].kind = "delay" /\ trace[i - 1].data = <<50000>>
        /\ \A i \in polls \ {last} : trace[i].ok /\ nibble(i) = 0
        /\ IF ~trace[last].ok THEN result = "Bus" /\ last = n
           ELSE IF nibble(last) = 1
           THEN /\ n = last + 1
                /\ trace[n].kind = "write" /\ trace[n].reg = PWR_CONF
                /\ result = (IF trace[n].ok THEN "Ok" ELSE "Bus")
           ELSE IF nibble(last) = 0
           THEN result = "ASICInitialization" /\ last = n /\ Cardinality(polls) = 4
           ELSE result = "ASICInitialization" /\ last = n

\* C25: once the config file is written and INIT_CTRL := 1 is issued,
\* load_config_file terminates: it polls INTERNAL_STATUS at most 4 times, 50 ms
\* apart (200 ms in all), goes on to the last PWR_CONF write only after a poll
\* whose low nibble is 0x01, returns Err(ASICInitialization) at the first poll
\* whose nibble is neither 0x00 nor 0x01, and after 4 polls that all read 0x00.
C25_PollingTerminates ==
    (op = "initialize" /\ pc = "poll_delay" /\ total_delay_ms = 0)
        ~> (pc = "done" /\ C25_PollOutcome)

C25_Witness ==
    /\ op = "initialize"
    /\ pc = "done"
    /\ result = "ASICInitialization"
    /\ total_delay_ms = ASIC_INITIALIZATION_TIMEOUT_MS
    /\ Last.kind = "read"
    /\ Last.reg = INTERNAL_STATUS
    /\ Last.data = <<0>>
    /\ Last.ok

\* C26: when the CHIP_ID register holds a value other than 0x13, initialize
\* returns Err(InvalidChipId(value)) with the value it read (or the bus error
\* of that read) and has issued no bus write: the read of CHIP_ID is its only
\* bus operation and the device is as it was.
C26_InvalidChipIdNoWrite ==
    (op = "initialize" /\ regs0[REG_CHIP_ID] # CHIP_ID) =>
        /\ \A i \in 1..Len(trace) : trace[i].kind = "read" /\ trace[i].reg = REG_CHIP_ID
        /\ Len(trace) <= 1
        /\ regs = regs0
        /\ mem = mem0
        /\ pc \in {"check_chip_id", "done"}
        /\ pc = "done" =>
              /\ Len(trace) = 1
              /\ IF Last.ok
                 THEN result = "InvalidChipId" /\ chip_id = regs0[REG_CHIP_ID]
                 ELSE result = "Bus"

C26_Witness ==
    /\ op = "initialize"
    /\ pc = "done"
    /\ result = "InvalidChipId"
    /\ chip_id = 18
    /\ regs0[REG_CHIP_ID] = 18
    /\ Len(trace) = 1

\* C27: every address initialize and reset_step_counter hand to
\* split_feature_conf_data_address (the start offsets 0 and 0x17F8 and every
\* read-back address plus 8, up to 0x1838) is even and below 8192: addr / 2
\* fits 12 bits, the msb is not truncated, the two bytes join back to the
\* address, and once both pointer registers are written the device's pointer
\* is the address requested.
C27_AddressesFitThePointer ==
    LET lsb == split_feature_conf_data_address(set_addr)[1]
        msb == split_feature_conf_data_address(set_addr)[2]
    IN  /\ (op \in {"initialize", "set_features"} /\ pc \in {"set_lsb", "set_msb"}) =>
              /\ set_addr % 2 = 0
              /\ set_addr < 8192
              /\ set_addr <= START + FEATURE_SIZE
              /\ lsb = (set_addr \div 2) % 16
              /\ msb = (set_addr \div 2) \div 16
              /\ msb * 16 + lsb = set_addr \div 2
              /\ join_feature_conf_data_address(lsb, msb) = set_addr
        /\ (/\ op \in {"initialize", "set_features"}
            /\ trace # <<>>
            /\ Last.kind = "write"
            /\ Last.reg = RESERVED_REG_5C
            /\ Last.ok)
           => DevPtr = set_addr

C27_Witness ==
    /\ op = "set_features"
    /\ set_addr = START + FEATURE_SIZE
    /\ Last.kind = "write"
    /\ Last.reg = RESERVED_REG_5C
    /\ Last.ok
    /\ DevPtr = 6200

\* C28: a feature transaction writes only PWR_CONF, the two pointer registers
\* and the FEATURES_IN port; every other register (CHIP_ID, INTERNAL_STATUS,
\* PWR_CTRL, INIT_CTRL, the interrupt pin configuration) and the
\* FIFO_SELF_WAKEUP bit of PWR_CONF keep their values throughout the call.
C28_FeatureTransactionFrame ==
    FeatureTransaction =>
        /\ \A i \in 1..Len(trace) :
              trace[i].kind = "write" =>
                  /\ trace[i].reg \in {PWR_CONF, RESERVED_REG_5B, RESERVED_REG_5C, FEATURES_IN}
                  /\ trace[i].reg = PWR_CONF =>
                        (trace[i].data[1] \div FIFO_SELF_WAKEUP) % 2
                            = (regs0[PWR_CONF] \div FIFO_SELF_WAKEUP) % 2
        /\ \A r \in Regs \ {PWR_CONF, RESERVED_REG_5B, RESERVED_REG_5C} : regs[r] = regs0[r]
        /\ (regs[PWR_CONF] \div FIFO_SELF_WAKEUP) % 2
              = (regs0[PWR_CONF] \div FIFO_SELF_WAKEUP) % 2

C28_Witness ==
    /\ op = "read_features"
    /\ pc = "chunk"
    /\ chunk_i = 1
    /\ regs0[PWR_CONF] = 3
    /\ regs[PWR_CONF] = FIFO_SELF_WAKEUP
    /\ regs[PWR_CTRL] = 4
    /\ regs[INIT_CTRL] = 1

\* C29: when initialize returns after it cleared PWR_CONF, the
\* advanced-power-save bit of the device is set exactly when it returns Ok: a
\* bus error or an ASIC initialization failure after the clearing write leaves
\* the device with advanced power save disabled.
C29_ApsAtReturnOfInitialize ==
    (/\ op = "initialize"
     /\ pc = "done"
     /\ Len(trace) >= 2
     /\ trace[2].kind = "write"
     /\ trace[2].reg = PWR_CONF
     /\ trace[2].data = <<0>>
     /\ trace[2].ok)
    => /\ (regs[PWR_CONF] % 2 = 1) = (result = "Ok")
       /\ result \in {"Ok", "Bus", "ASICInitialization"}
       /\ result # "Ok" => regs[PWR_CONF] = 0

C29_Witness ==
    /\ op = "initialize"
    /\ pc = "done"
    /\ result = "ASICInitialization"
    /\ regs0[PWR_CONF] = 3
    /\ regs[PWR_CONF] = 0
    /\ Last.reg = INTERNAL_STATUS
    /\ Last.data = <<2>>

====
